---- MODULE Spec2Model ----
(***************************************************************************)
(* Document pack cache and retrieval engine of enterprise-chatbot:         *)
(*   src/rag/docpack_manager.py  (pack cache, key derivation, ingest log)  *)
(*   src/rag/ingest.py           (ingestion engine)                        *)
(*   src/rag/retriever.py        (vector index adapter, retrieval)         *)
(*                                                                         *)
(* Text is modelled as a sequence of character codes, so that sorting,     *)
(* joining and formatting are computed as the code computes them.  The     *)
(* program runs on one asyncio event loop: an action is the code between   *)
(* two suspension points (await of a network fetch, of the HTTP client's   *)
(* close), and everything between two suspension points is atomic for the  *)
(* other coroutines.  One operation does not run on the loop: /debug/packs *)
(* is a plain `def` endpoint (src/api/main.py:48-50), which the server     *)
(* runs in a worker thread, so pack_summaries can run while the loop is    *)
(* in the middle of a step.  The one place where that shows is between the *)
(* two appends of upsert_documents, which therefore is two steps.          *)
(***************************************************************************)
EXTENDS Integers, Sequences, FiniteSets, TLC

VARIABLES
    packs,          \* _packs: pack key -> Manifest            (docpack_manager.py:22)
    ingest_log,     \* _ingest_log: pack key -> recent urls    (docpack_manager.py:23)
    pack_indexes,   \* _pack_indexes: key -> {index, meta}     (retriever.py:9)
    calls,          \* the ensure_pack_for_decision invocations, one coroutine each
    tasks,          \* the _bg_ingest tasks created by asyncio.create_task
    fetch_calls,    \* number of Fetcher calls (client.get) made so far
    retr,           \* what the last retrieve_from_pack call did and returned
    ing,            \* ingestion alone: the ingest_stage_a call and its fetches
    kin,            \* key derivation alone: the two topic descriptors given
    kout            \* key derivation alone: the keys derived for them

vars == <<packs, ingest_log, pack_indexes, calls, tasks, fetch_calls, retr, ing, kin, kout>>
mainVars == <<packs, ingest_log, pack_indexes, calls, tasks, fetch_calls, retr, ing>>
keyVars == <<kin, kout>>

(***************************************************************************)
(* Bounds of the model.                                                    *)
(***************************************************************************)
\* ensure_pack_for_decision invocations in one behaviour
MaxCalls == 2
\* longest candidate_sources list given to key derivation alone
MaxSources == 2
\* retrieval alone: every index of at most MaxDocs documents is tried with
\* every k up to MaxK, every order of the neighbours and every scoring
MaxDocs == 4
MaxK == 5
\* retrieval alone: two larger indexes and a larger k, tried with a few
\* orders and scorings (LargeDocs > 3 * LargeK > 30 > ExampleDocs)
ExampleDocs == 10
LargeDocs == 40
LargeK == 11
\* ingestion alone: largest max_pages_per_source given to ingest_stage_a
MaxPages == 3

(***************************************************************************)
(* Text.                                                                   *)
(***************************************************************************)
StrGeneric == <<103, 101, 110, 101, 114, 105, 99>>                \* "generic"
StrLatest == <<108, 97, 116, 101, 115, 116>>                      \* "latest"
StrEn == <<101, 110>>                                             \* "en"
StrBar == <<124>>                                                 \* "|"
StrComma == <<44>>                                                \* ","
StrK8s == <<107, 56, 115>>                                        \* "k8s"
StrOne == <<49>>                                                  \* "1"
StrKw == <<107>>                                                  \* "k"
UrlA == <<104, 116, 116, 112, 58, 47, 47, 97, 47>>                \* "http://a/"
UrlAK == <<104, 116, 116, 112, 58, 47, 47, 97, 47, 107>>          \* "http://a/k"
UrlB == <<104, 116, 116, 112, 58, 47, 47, 98, 47>>                \* "http://b/"
UrlCK == <<104, 116, 116, 112, 58, 47, 47, 99, 47, 107>>          \* "http://c/k"
UrlCK1 == <<104, 116, 116, 112, 58, 47, 47, 99, 47, 75, 49>>      \* "http://c/K1"
UrlCK2 == <<104, 116, 116, 112, 58, 47, 47, 99, 47, 107, 50>>     \* "http://c/k2"
UrlCX == <<104, 116, 116, 112, 58, 47, 47, 99, 47, 120>>          \* "http://c/x"
UrlDK == <<104, 116, 116, 112, 58, 47, 47, 100, 47, 107>>         \* "http://d/k"
UrlSCK == <<104, 116, 116, 112, 115, 58, 47, 47, 99, 47, 107>>    \* "https://c/k"
UrlFtpCK == <<102, 116, 112, 58, 47, 47, 99, 47, 107>>            \* "ftp://c/k"
StrBlank == <<32>>                                                \* " "
StrUpperK == <<75>>                                               \* "K"

\* Optional[str]: <<>> is None, <<s>> is the string s.
None == <<>>
Some(s) == <<s>>

Range(s) == {s[i] : i \in DOMAIN s}
Min(a, b) == IF a <= b THEN a ELSE b
Max(a, b) == IF a >= b THEN a ELSE b

\* all sequences over S of length at most n
SeqsUpTo(S, n) == UNION {[1..m -> S] : m \in 0..n}

\* Python's str comparison: lexicographic by code point.
RECURSIVE StrLeq(_, _)
StrLeq(s, t) ==
    IF s = <<>> THEN TRUE
    ELSE IF t = <<>> THEN FALSE
    ELSE IF s[1] < t[1] THEN TRUE
    ELSE IF s[1] > t[1] THEN FALSE
    ELSE StrLeq(Tail(s), Tail(t))

\* insert x into the ascending list l, after the elements that are <= x
RECURSIVE InsertSorted(_, _)
InsertSorted(x, l) ==
    IF l = <<>> THEN <<x>>
    ELSE IF StrLeq(l[1], x) THEN <<l[1]>> \o InsertSorted(x, Tail(l))
    ELSE <<x>> \o l

\* sorted(l) of a list of str: ascending, every element kept (duplicates too)
RECURSIVE sorted(_)
sorted(l) ==
    IF l = <<>> THEN <<>>
    ELSE InsertSorted(l[Len(l)], sorted(SubSeq(l, 1, Len(l) - 1)))

\* sep.join(l)
RECURSIVE join(_, _)
join(sep, l) ==
    IF l = <<>> THEN <<>>
    ELSE IF Len(l) = 1 THEN l[1]
    ELSE l[1] \o sep \o join(sep, Tail(l))

\* `x or default` on an Optional[str]: None and "" are both falsy
OrElse(x, default) == IF x = None \/ x[1] = <<>> THEN default ELSE x[1]

\* hashlib.sha256(raw).hexdigest(): taken as collision-free, a digest is
\* represented by the text it digests
sha256(raw) == raw

(***************************************************************************)
(* Key derivation (docpack_manager.py:26-30).                              *)
(***************************************************************************)
\* the derivation with the sources joined in the order given
key_from_sources_unsorted(tech, version, lang, sources) ==
    sha256(OrElse(tech, StrGeneric) \o StrBar \o OrElse(version, StrLatest)
           \o StrBar \o lang \o StrBar \o join(StrComma, sources))

key_from_sources(tech, version, lang, sources) ==
    sha256(OrElse(tech, StrGeneric) \o StrBar \o OrElse(version, StrLatest)
           \o StrBar \o lang \o StrBar \o join(StrComma, sorted(sources)))

\* ensure_pack_for_decision, lines 64-67: the key of a TopicDecision
DecisionKey(decision, lang) ==
    key_from_sources(decision.tech,
                     Some(OrElse(decision.version, StrLatest)),
                     lang,
                     decision.candidate_sources)

(***************************************************************************)
(* The documentation sites the Fetcher reads.  A fetch of a url either     *)
(* fails (timeout, HTTP error) or returns the page: the absolute urls of   *)
(* its <a href> links in document order (urljoin already applied), the     *)
(* text _extract_text yields for it and its <title>.  Site a has a page    *)
(* that links to one more; the page of site b has no text; the page        *)
(* "http://c/k" links to a second page, to itself, to a page without the   *)
(* keyword, to another site, to the second page again and to a third page; *)
(* that third page, "http://c/K1", links to "http://c/k" under the schemes *)
(* https, ftp and http and to another site.                                *)
(***************************************************************************)
StrText == <<116>>                                                \* "t"
StrTitle == <<84>>                                                \* "T"
NoPage == [hrefs |-> <<>>, text |-> <<>>, title |-> None]
Web ==
    (UrlA :> [hrefs |-> <<UrlAK>>, text |-> StrText, title |-> None]) @@
    (UrlAK :> [hrefs |-> <<>>, text |-> StrText, title |-> None]) @@
    (UrlB :> [hrefs |-> <<>>, text |-> <<>>, title |-> None]) @@
    (UrlCK :> [hrefs |-> <<UrlCK2, UrlCK, UrlCX, UrlDK, UrlCK2, UrlCK1>>,
               text |-> StrText, title |-> Some(StrTitle)]) @@
    (UrlCK1 :> [hrefs |-> <<UrlSCK, UrlFtpCK, UrlDK, UrlCK>>,
                text |-> StrText, title |-> None]) @@
    (UrlCK2 :> [hrefs |-> <<>>, text |-> <<>>, title |-> Some(StrTitle)])
Page(url) == IF url \in DOMAIN Web THEN Web[url] ELSE NoPage
FetchOutcomes == {"ok", "fail"}

(***************************************************************************)
(* Ingestion engine, pure parts (ingest.py).                               *)
(***************************************************************************)
\* first position at which sub occurs in s, 0 if none
IndexOf(s, sub) ==
    LET hits == {i \in 1..(Len(s) - Len(sub) + 1) : SubSeq(s, i, i + Len(sub) - 1) = sub}
    IN  IF hits = {} THEN 0 ELSE CHOOSE i \in hits : \A j \in hits : i <= j

\* `sub in s`
Contains(s, sub) == sub = <<>> \/ IndexOf(s, sub) > 0

\* str.lower() on ASCII text
lower(s) == [i \in DOMAIN s |-> IF s[i] \in 65..90 THEN s[i] + 32 ELSE s[i]]

\* bool(k.strip()): some character is not whitespace
StripNonEmpty(s) == \E i \in DOMAIN s : s[i] \notin {9, 10, 11, 12, 13, 32}

\* urlparse(url).scheme and .netloc of an absolute url scheme://netloc/path
StrSchemeSep == <<58, 47, 47>>                                    \* "://"
StrHttp == <<104, 116, 116, 112>>                                 \* "http"
StrHttps == <<104, 116, 116, 112, 115>>                           \* "https"
UrlScheme(url) ==
    LET i == IndexOf(url, StrSchemeSep)
    IN  IF i = 0 THEN <<>> ELSE SubSeq(url, 1, i - 1)
UrlNetloc(url) ==
    LET i == IndexOf(url, StrSchemeSep)
        rest == IF i = 0 THEN <<>> ELSE SubSeq(url, i + 3, Len(url))
        j == IndexOf(rest, <<47>>)
    IN  IF j = 0 THEN rest ELSE SubSeq(rest, 1, j - 1)

\* ingest.py:12-14 without the test of the candidate's scheme
same_domain_any_scheme(url, candidate) == UrlNetloc(url) = UrlNetloc(candidate)

\* ingest.py:12-14
same_domain(url, candidate) ==
    /\ UrlNetloc(url) = UrlNetloc(candidate)
    /\ UrlScheme(candidate) \in {StrHttp, StrHttps}

\* list(dict.fromkeys(l)): first occurrences, in order
RECURSIVE Dedup(_)
Dedup(l) ==
    IF l = <<>> THEN <<>>
    ELSE LET init == Dedup(SubSeq(l, 1, Len(l) - 1))
             x == l[Len(l)]
         IN  IF x \in Range(init) THEN init ELSE Append(init, x)

\* l[:n] and l[-n:], for n >= 0
Take(l, n) == SubSeq(l, 1, Min(Len(l), n))
Last(l, n) == SubSeq(l, Max(1, Len(l) - n + 1), Len(l))

\* ingest.py:34-48, the candidate urls without the cut to `limit`
candidate_links_uncut(html, base_url, keywords, limit) ==
    LET KwOk(k) == StripNonEmpty(k)
        kws == SelectSeq(keywords, KwOk)
        Match(cand) ==
            /\ same_domain(base_url, cand)
            /\ \E i \in DOMAIN kws : Contains(lower(cand), lower(kws[i]))
    IN  <<base_url>> \o Dedup(SelectSeq(html.hrefs, Match))

\* ingest.py:34-49, after the base page was fetched: the urls to ingest
candidate_links(html, base_url, keywords, limit) ==
    LET KwOk(k) == StripNonEmpty(k)
        kws == SelectSeq(keywords, KwOk)
        Match(cand) ==
            /\ same_domain(base_url, cand)
            /\ \E i \in DOMAIN kws : Contains(lower(cand), lower(kws[i]))
        hrefs == SelectSeq(html.hrefs, Match)
    IN  Take(<<base_url>> \o Dedup(hrefs), limit)

\* ingest.py:82-88: the document built from a fetched page
MakeDoc(url, html) ==
    [title |-> IF html.title = None THEN url ELSE html.title[1],
     url |-> url, text |-> html.text]

(***************************************************************************)
(* Vector index adapter (retriever.py).  pack_indexes[key].index is the    *)
(* list of vectors added to the key's faiss index, in offset order (a      *)
(* vector is represented by the passage it embeds), and .meta the parallel *)
(* list of documents; index.ntotal is the length of .index.                *)
(***************************************************************************)
EmptyIndex == [index |-> <<>>, meta |-> <<>>]

\* retriever.py:33-36
ensure_index(idx, key) ==
    IF key \in DOMAIN idx THEN idx ELSE idx @@ (key :> EmptyIndex)

ntotal(idx, key) == IF key \in DOMAIN idx THEN Len(idx[key].index) ELSE 0

\* model.encode of "passage: <text>", normalised
encode_passage(d) == <<"passage", d.text>>

\* retriever.py:39-45, upsert_documents up to index.add(vecs).  embed_ok =
\* FALSE: the Embedder fails (model load or encode raises); the index has
\* been created by then and nothing was added.
upsert_add(idx, key, docs, embed_ok) ==
    LET idx1 == ensure_index(idx, key)
        vecs == [i \in DOMAIN docs |-> encode_passage(docs[i])]
    IN  IF embed_ok
        THEN [idx1 EXCEPT ![key].index = @ \o vecs]
        ELSE idx1

\* retriever.py:46, meta.extend(docs), the end of upsert_documents
upsert_extend(idx, key, docs) == [idx EXCEPT ![key].meta = @ \o docs]

\* the insertion that puts x before the elements of equal score
RECURSIVE InsertBeforeEqual(_, _)
InsertBeforeEqual(x, l) ==
    IF l = <<>> THEN <<x>>
    ELSE IF l[1].score > x.score THEN <<l[1]>> \o InsertBeforeEqual(x, Tail(l))
    ELSE <<x>> \o l

\* sorted(pairs, key=score, reverse=True): descending, and stable (reverse
\* keeps the original order of elements with equal keys)
RECURSIVE InsertByScore(_, _)
InsertByScore(x, l) ==
    IF l = <<>> THEN <<x>>
    ELSE IF l[1].score >= x.score THEN <<l[1]>> \o InsertByScore(x, Tail(l))
    ELSE <<x>> \o l
RECURSIVE SortByScore(_)
SortByScore(l) ==
    IF l = <<>> THEN <<>>
    ELSE InsertByScore(l[Len(l)], SortByScore(SubSeq(l, 1, Len(l) - 1)))

\* retriever.py:62 without the floor of 30 candidates
pre_k_no_floor(k, n) == Min(k * 3, n)
\* retriever.py:62: the number of neighbours asked of index.search
pre_k(k, n) == Min(Max(k * 3, 30), n)

\* retriever.py:72 without the slice
top_k_all(ranked, k) == ranked
\* retriever.py:72: `[:k]` (k >= 0)
top_k(ranked, k) == Take(ranked, k)

\* retriever.py:79: `hits[:4]`
top_citations(hits) == Take(hits, 4)

\* the short circuit of retriever.py:55, never taken
EmptyShortCircuitNever(n) == FALSE
\* retriever.py:55
EmptyShortCircuit(n) == n = 0

\* retriever.py:49-80.  order: the offsets index.search returns for pre_k
\* neighbours (-1 where it has none); score[i]: the Reranker's score of the
\* i-th candidate.  Gives the indexes after the call, how the call ended and
\* what it returned, and the Embedder and Reranker calls it made.
retrieve_from_pack(idx, key, k, order, score, embed_ok, rerank_ok) ==
    LET idx1 == ensure_index(idx, key)
        meta == idx1[key].meta
        n == Len(idx1[key].index)
        found == SelectSeq(order, LAMBDA i : i # -1)
        cands == [j \in DOMAIN found |-> meta[found[j]]]
        pairs == [j \in DOMAIN cands |-> [c |-> cands[j], score |-> score[j]]]
        ranked == top_k(SortByScore(pairs), k)
        hits == [j \in DOMAIN ranked |->
                    [text |-> ranked[j].c.text, url |-> ranked[j].c.url,
                     title |-> ranked[j].c.title, score |-> ranked[j].score]]
        context == [j \in DOMAIN hits |->
                    [text |-> hits[j].text, url |-> hits[j].url, title |-> hits[j].title]]
        cits == top_citations(hits)
        citations == [j \in DOMAIN cits |->
                    [title |-> cits[j].title, url |-> cits[j].url, score |-> cits[j].score]]
        Ret(outcome, ctx, cit, e, r) ==
            [indexes |-> idx1, key |-> key, k |-> k, ntotal |-> n, outcome |-> outcome,
             context |-> ctx, citations |-> cit, embed_calls |-> e, rerank_calls |-> r,
             embed_ok |-> embed_ok, rerank_ok |-> rerank_ok,
             seen |-> key \in DOMAIN idx,
             pre_k |-> IF e = 1 /\ embed_ok THEN pre_k(k, n) ELSE 0,
             reranked |-> IF r = 1 THEN Len(pairs) ELSE 0,
             order |-> order, score |-> score]
    IN  IF EmptyShortCircuit(n) THEN Ret("ok", <<>>, <<>>, 0, 0)
        ELSE IF ~embed_ok THEN Ret("raised", <<>>, <<>>, 1, 0)
        ELSE IF ~rerank_ok THEN Ret("raised", <<>>, <<>>, 1, 1)
        ELSE Ret("ok", context, citations, 1, 1)

\* retriever.py:83-87
get_index_stats(idx, key) ==
    LET idx1 == ensure_index(idx, key)
    IN  [indexes |-> idx1, ntotal |-> Len(idx1[key].index),
         meta_count |-> Len(idx1[key].meta)]

(***************************************************************************)
(* Ingestion engine, the coroutine ingest_stage_a (ingest.py:52-102).      *)
(* A job is one invocation: phase "base" awaits the fetch of sources[si]   *)
(* in _candidate_links, "page" the fetch of links[li], "closing" the close *)
(* of the HTTP client on leaving `async with`; "done" has returned         *)
(* (total, dedup[-100:]); "raised" has let an exception out.  "upsert" is  *)
(* no suspension point: the loop is inside upsert_documents, the vectors   *)
(* of the batch added and its documents not yet appended.                  *)
(***************************************************************************)
NoJob ==
    [phase |-> "none", key |-> <<>>, sources |-> <<>>, subtopics |-> <<>>, limit |-> 0,
     si |-> 0, links |-> <<>>, li |-> 0, docs |-> <<>>, total |-> 0, all_urls |-> <<>>,
     ok_fetches |-> 0, exc |-> FALSE]

\* ingest.py:63-68 without the test of lines 61-62: the HTTP client is
\* opened whatever the sources
ingest_begin_opens_client(key, sources, subtopics, limit) ==
    IF sources = <<>>
    THEN [NoJob EXCEPT !.phase = "closing", !.key = key, !.limit = limit,
                       !.subtopics = subtopics]
    ELSE [NoJob EXCEPT !.phase = "base", !.key = key, !.sources = sources,
                       !.subtopics = subtopics, !.limit = limit, !.si = 1]

\* ingest.py:61-68: the call, up to its first suspension
ingest_begin(key, sources, subtopics, limit) ==
    IF sources = <<>>
    THEN [NoJob EXCEPT !.phase = "done", !.key = key, !.limit = limit,
                       !.subtopics = subtopics]
    ELSE [NoJob EXCEPT !.phase = "base", !.key = key, !.sources = sources,
                       !.subtopics = subtopics, !.limit = limit, !.si = 1]

\* the `for base in sources` loop moves on, or ends and the client closes
NextSource(job) ==
    IF job.si < Len(job.sources)
    THEN [job EXCEPT !.phase = "base", !.si = @ + 1, !.links = <<>>, !.li = 0,
                     !.docs = <<>>]
    ELSE [job EXCEPT !.phase = "closing", !.si = 0, !.links = <<>>, !.li = 0,
                     !.docs = <<>>]

\* ingest.py:69-77 without the try/except around _candidate_links: a failed
\* base fetch lets its exception out of the ingest
AfterBaseNoCatch(job, outcome) ==
    LET base == job.sources[job.si]
        links == candidate_links(Page(base), base, job.subtopics, job.limit)
    IN  IF outcome = "fail"
        THEN [job EXCEPT !.phase = "closing", !.exc = TRUE, !.si = 0]
        ELSE [job EXCEPT !.phase = "page", !.links = links, !.li = 1, !.docs = <<>>,
                         !.all_urls = @ \o links, !.ok_fetches = @ + 1]

\* ingest.py:69-77 with the base url of a failed source kept in all_urls
AfterBaseKeepsFailed(job, outcome) ==
    LET base == job.sources[job.si]
        links == candidate_links(Page(base), base, job.subtopics, job.limit)
    IN  IF outcome = "fail" THEN NextSource([job EXCEPT !.all_urls = Append(@, base)])
        ELSE [job EXCEPT !.phase = "page", !.links = links, !.li = 1, !.docs = <<>>,
                         !.all_urls = @ \o links, !.ok_fetches = @ + 1]

\* ingest.py:69-77: the base fetch of _candidate_links ended with `outcome`
\* ("fail": the fetch or the parse raised)
AfterBase(job, outcome) ==
    LET base == job.sources[job.si]
        links == candidate_links(Page(base), base, job.subtopics, job.limit)
    IN  IF outcome = "fail" THEN NextSource(job)
        ELSE IF links = <<>>
        THEN NextSource([job EXCEPT !.all_urls = @ \o links, !.ok_fetches = @ + 1])
        ELSE [job EXCEPT !.phase = "page", !.links = links, !.li = 1, !.docs = <<>>,
                         !.all_urls = @ \o links, !.ok_fetches = @ + 1]

\* ingest.py:78-92 with upsert_documents inside a try/except: a failure of
\* the Embedder is swallowed and the source counts as having no document
AfterPageSwallows(job0, idx, outcome, embed_ok) ==
    LET url == job0.links[job0.li]
        job == IF outcome = "ok" THEN [job0 EXCEPT !.ok_fetches = @ + 1] ELSE job0
        docs == IF outcome = "ok" THEN Append(job.docs, MakeDoc(url, Page(url)))
                ELSE job.docs
    IN  IF job.li < Len(job.links)
        THEN [job |-> [job EXCEPT !.li = @ + 1, !.docs = docs], indexes |-> idx]
        ELSE IF docs = <<>>
        THEN [job |-> NextSource(job), indexes |-> idx]
        ELSE IF embed_ok
        THEN [job |-> [job EXCEPT !.phase = "upsert", !.docs = docs],
              indexes |-> upsert_add(idx, job.key, docs, TRUE)]
        ELSE [job |-> NextSource(job),
              indexes |-> upsert_add(idx, job.key, docs, FALSE)]

\* ingest.py:78-92: the fetch of links[li] ended with `outcome` ("fail": the
\* fetch or the extraction raised); after the last link the source's
\* documents are upserted as one batch, here up to index.add.  Gives the job
\* and the indexes after the step.
AfterPage(job0, idx, outcome, embed_ok) ==
    LET url == job0.links[job0.li]
        job == IF outcome = "ok" THEN [job0 EXCEPT !.ok_fetches = @ + 1] ELSE job0
        docs == IF outcome = "ok" THEN Append(job.docs, MakeDoc(url, Page(url)))
                ELSE job.docs
    IN  IF job.li < Len(job.links)
        THEN [job |-> [job EXCEPT !.li = @ + 1, !.docs = docs], indexes |-> idx]
        ELSE IF docs = <<>>
        THEN [job |-> NextSource(job), indexes |-> idx]
        ELSE IF embed_ok
        THEN [job |-> [job EXCEPT !.phase = "upsert", !.docs = docs],
              indexes |-> upsert_add(idx, job.key, docs, TRUE)]
        ELSE [job |-> [job EXCEPT !.phase = "closing", !.exc = TRUE, !.docs = <<>>,
                                  !.links = <<>>, !.li = 0, !.si = 0],
              indexes |-> upsert_add(idx, job.key, docs, FALSE)]

\* retriever.py:46 and ingest.py:93: the batch's documents are appended, the
\* count grows, and the loop over the sources moves on
AfterUpsert(job, idx) ==
    [job |-> NextSource([job EXCEPT !.total = @ + Len(job.docs)]),
     indexes |-> upsert_extend(idx, job.key, job.docs)]

\* the client has closed: the call returns, or the exception goes on
AfterClose(job) ==
    IF job.exc THEN [job EXCEPT !.phase = "raised"] ELSE [job EXCEPT !.phase = "done"]

\* the count of ingest.py:102 taken as the number of fetches that succeeded
ingest_count_fetches(job) == job.ok_fetches
\* ingest.py:94-102: what a returned call returns
ingest_count(job) == job.total
ingest_urls(job) == Last(Dedup(job.all_urls), 100)

\* a job that awaits a fetch
AwaitsFetch(job) == job.phase \in {"base", "page"}

(***************************************************************************)
(* Pack cache (docpack_manager.py).  Completeness is counted in tenths:    *)
(* 0, 3, 6 and 10 stand for 0.0, 0.3, 0.6 and 1.0.                         *)
(***************************************************************************)
\* max_pages_per_source of the synchronous ingest
SyncCap == 15
\* limit of the background ingest
BgCap == 30
\* k of the retrieve call of a chat turn
RetrieveK == 20

\* docpack_manager.py:12-19 with a default completeness of 1.0
ManifestComplete(tech, version, lang, sources) ==
    [tech |-> tech, version |-> version, lang |-> lang, sources |-> sources,
     completeness |-> 10, ttl_days |-> 14]

\* docpack_manager.py:12-19
Manifest(tech, version, lang, sources) ==
    [tech |-> tech, version |-> version, lang |-> lang, sources |-> sources,
     completeness |-> 0, ttl_days |-> 14]

\* docpack_manager.py:37-49
log_ingest(log, key, urls) ==
    IF urls = <<>> THEN log
    ELSE LET prev == IF key \in DOMAIN log THEN log[key] ELSE <<>>
             out == Last(Dedup(Last(prev \o urls, 200)), 50)
         IN  IF key \in DOMAIN log THEN [log EXCEPT ![key] = out]
             ELSE log @@ (key :> out)

\* the test of docpack_manager.py:69 that also asks for a non-empty pack
PackExistsNonEmpty(key) == key \in DOMAIN packs /\ packs[key].completeness > 0
\* docpack_manager.py:69: `key in _packs`
PackExists(key) == key \in DOMAIN packs

\* docpack_manager.py:77 with the partial value given whatever was ingested
SyncCompletenessAlways(count) == 3
\* docpack_manager.py:77
SyncCompleteness(count) == IF count # 0 THEN 3 ELSE 0

\* docpack_manager.py:80
SyncStatus(count) == IF count # 0 THEN "ready" ELSE "building"

\* docpack_manager.py:58 with min where max is meant
BgCompletenessMin(old) == Min(10, Min(old, 6))
\* docpack_manager.py:58
BgCompleteness(old) == Min(10, Max(old, 6))

(***************************************************************************)
(* The topic descriptors given to ensure_pack_for_decision.                *)
(***************************************************************************)
Decision(tech, version, sources, subtopics) ==
    [tech |-> tech, version |-> version, candidate_sources |-> sources,
     subtopics |-> subtopics]

Decisions ==
    {Decision(None, None, src, <<StrKw>>) :
        src \in {<<UrlA, UrlB>>, <<UrlB, UrlA>>, <<>>}}

\* the key ensure_pack_for_decision derives for each of them (lang = "en")
KeyOf == [d \in Decisions |-> DecisionKey(d, StrEn)]

Calls == 1..MaxCalls

NoCall == [pc |-> "idle", decision |-> Decision(None, None, <<>>, <<>>), key |-> <<>>,
           status |-> "none", created |-> FALSE, job |-> NoJob]
NoTask == [pc |-> "none", key |-> <<>>, sources |-> <<>>, subtopics |-> <<>>,
           limit |-> 0, job |-> NoJob]
\* ingestion alone, before the call: the arguments, the fetches that have
\* ended (url, whether for link discovery or for a page, the source it
\* belongs to, whether it succeeded), the key's vector count at the call,
\* whether the Embedder failed
NoIng == [job |-> NoJob, sources |-> <<>>, subtopics |-> <<>>, limit |-> 0,
          log |-> <<>>, before |-> 0, embed_failed |-> FALSE]
NoRetr == [key |-> <<>>, k |-> 0, ntotal |-> 0, outcome |-> "none", context |-> <<>>,
           citations |-> <<>>, embed_calls |-> 0, rerank_calls |-> 0,
           embed_ok |-> TRUE, rerank_ok |-> TRUE, seen |-> FALSE,
           pre_k |-> 0, reranked |-> 0, order |-> <<>>, score |-> <<>>]

\* the fixed Embedder and Reranker of the concurrency specification: equal
\* inner products, so index.search returns the offsets in insertion order,
\* and a relevance that grows with the length of the text
DenseOrder(idx, key, k) == [i \in 1..pre_k(k, ntotal(idx, key)) |-> i]
Relevance(idx, key, order) == [j \in DOMAIN order |-> Len(idx[key].meta[order[j]].text)]

MainInit ==
    /\ packs = <<>>
    /\ ingest_log = <<>>
    /\ pack_indexes = <<>>
    /\ calls = [c \in Calls |-> NoCall]
    /\ tasks = [c \in Calls |-> NoTask]
    /\ fetch_calls = 0
    /\ retr = NoRetr
    /\ ing = NoIng

KeyIdle ==
    /\ kin = [a |-> NoCall.decision, b |-> NoCall.decision, lang |-> StrEn]
    /\ kout = [a |-> None, b |-> None]

Init == MainInit /\ KeyIdle

\* the loop is not inside upsert_documents: its coroutines can take a step
LoopFree ==
    \A c \in Calls : calls[c].job.phase # "upsert" /\ tasks[c].job.phase # "upsert"

(***************************************************************************)
(* ensure_pack_for_decision (docpack_manager.py:61-80).                    *)
(***************************************************************************)
\* lines 76-80, run when the synchronous ingest has returned: log, set the
\* completeness, create the background task, return
EnsureReturn(c, d, key, job, packs1) ==
    /\ ingest_log' = log_ingest(ingest_log, key, ingest_urls(job))
    /\ packs' = [packs1 EXCEPT ![key].completeness = SyncCompleteness(ingest_count(job))]
    /\ tasks' = [tasks EXCEPT ![c] =
                    [pc |-> "scheduled", key |-> key, sources |-> d.candidate_sources,
                     subtopics |-> d.subtopics, limit |-> BgCap, job |-> NoJob]]
    /\ calls' = [calls EXCEPT ![c] =
                    [pc |-> "returned", decision |-> d, key |-> key,
                     status |-> SyncStatus(ingest_count(job)), created |-> TRUE,
                     job |-> job]]

\* lines 64-75: derive the key; an existing Manifest returns "ready" at
\* once; else the Manifest is created and the synchronous ingest begins.
\* No suspension point lies between the test and the creation.
EnsureStart(c, d) ==
    /\ LoopFree
    /\ calls[c].pc = "idle"
    \* invocations are numbered in the order in which they begin
    /\ IF c = 1 THEN TRUE ELSE calls[c - 1].pc # "idle"
    /\ LET key == KeyOf[d]
           job == ingest_begin(key, d.candidate_sources, d.subtopics, SyncCap)
           packs1 == (key :> Manifest(d.tech, Some(OrElse(d.version, StrLatest)),
                                      StrEn, d.candidate_sources)) @@ packs
       IN  IF PackExists(key)
           THEN /\ calls' = [calls EXCEPT ![c] =
                                [NoCall EXCEPT !.pc = "returned", !.decision = d,
                                               !.key = key, !.status = "ready"]]
                /\ UNCHANGED <<packs, ingest_log, pack_indexes, tasks, fetch_calls>>
           ELSE IF job.phase = "done"
           THEN /\ EnsureReturn(c, d, key, job, packs1)
                /\ UNCHANGED <<pack_indexes, fetch_calls>>
           ELSE /\ packs' = packs1
                /\ calls' = [calls EXCEPT ![c] =
                                [NoCall EXCEPT !.pc = "ingest", !.decision = d,
                                               !.key = key, !.created = TRUE,
                                               !.job = job]]
                /\ fetch_calls' = fetch_calls + 1
                /\ UNCHANGED <<ingest_log, pack_indexes, tasks>>
    /\ UNCHANGED <<retr, ing, keyVars>>

\* a fetch of the synchronous ingest ends; the ingest runs on to its next
\* suspension point
SyncFetched(c, outcome, embed_ok) ==
    /\ LoopFree
    /\ calls[c].pc = "ingest"
    /\ AwaitsFetch(calls[c].job)
    /\ LET job == calls[c].job
           r == IF job.phase = "base"
                THEN [job |-> AfterBase(job, outcome), indexes |-> pack_indexes]
                ELSE AfterPage(job, pack_indexes, outcome, embed_ok)
       IN  /\ calls' = [calls EXCEPT ![c].job = r.job]
           /\ pack_indexes' = r.indexes
           /\ fetch_calls' = IF AwaitsFetch(r.job) THEN fetch_calls + 1 ELSE fetch_calls
    /\ UNCHANGED <<packs, ingest_log, tasks, retr, ing, keyVars>>

\* upsert_documents of the synchronous ingest comes to its end; the ingest
\* runs on to its next suspension point
SyncUpserted(c) ==
    /\ calls[c].pc = "ingest"
    /\ calls[c].job.phase = "upsert"
    /\ LET r == AfterUpsert(calls[c].job, pack_indexes)
       IN  /\ calls' = [calls EXCEPT ![c].job = r.job]
           /\ pack_indexes' = r.indexes
           /\ fetch_calls' = IF AwaitsFetch(r.job) THEN fetch_calls + 1 ELSE fetch_calls
    /\ UNCHANGED <<packs, ingest_log, tasks, retr, ing, keyVars>>

\* the HTTP client has closed: the ingest returns and the call runs to its
\* end, or the Embedder's exception leaves the call
SyncClosed(c) ==
    /\ LoopFree
    /\ calls[c].pc = "ingest"
    /\ calls[c].job.phase = "closing"
    /\ LET job == AfterClose(calls[c].job)
       IN  IF job.phase = "raised"
           THEN /\ calls' = [calls EXCEPT ![c].pc = "raised", ![c].job = job]
                /\ UNCHANGED <<packs, ingest_log, tasks>>
           ELSE EnsureReturn(c, calls[c].decision, calls[c].key, job, packs)
    /\ UNCHANGED <<pack_indexes, fetch_calls, retr, ing, keyVars>>

(***************************************************************************)
(* _bg_ingest (docpack_manager.py:52-58), run as a task of the loop.       *)
(***************************************************************************)
\* lines 56-58, run when the background ingest has returned
BgReturn(c, job) ==
    /\ ingest_log' = log_ingest(ingest_log, tasks[c].key, ingest_urls(job))
    /\ packs' = IF ingest_count(job) # 0
                THEN [packs EXCEPT ![tasks[c].key].completeness = BgCompleteness(@)]
                ELSE packs
    /\ tasks' = [tasks EXCEPT ![c].pc = "done", ![c].job = job]

\* the loop runs the task for the first time
BgStart(c) ==
    /\ LoopFree
    /\ tasks[c].pc = "scheduled"
    /\ LET t == tasks[c]
           job == ingest_begin(t.key, t.sources, t.subtopics, t.limit)
       IN  IF job.phase = "done"
           THEN /\ BgReturn(c, job)
                /\ UNCHANGED fetch_calls
           ELSE /\ tasks' = [tasks EXCEPT ![c].pc = "running", ![c].job = job]
                /\ fetch_calls' = fetch_calls + 1
                /\ UNCHANGED <<packs, ingest_log>>
    /\ UNCHANGED <<pack_indexes, calls, retr, ing, keyVars>>

BgFetched(c, outcome, embed_ok) ==
    /\ LoopFree
    /\ tasks[c].pc = "running"
    /\ AwaitsFetch(tasks[c].job)
    /\ LET job == tasks[c].job
           r == IF job.phase = "base"
                THEN [job |-> AfterBase(job, outcome), indexes |-> pack_indexes]
                ELSE AfterPage(job, pack_indexes, outcome, embed_ok)
       IN  /\ tasks' = [tasks EXCEPT ![c].job = r.job]
           /\ pack_indexes' = r.indexes
           /\ fetch_calls' = IF AwaitsFetch(r.job) THEN fetch_calls + 1 ELSE fetch_calls
    /\ UNCHANGED <<packs, ingest_log, calls, retr, ing, keyVars>>

BgUpserted(c) ==
    /\ tasks[c].pc = "running"
    /\ tasks[c].job.phase = "upsert"
    /\ LET r == AfterUpsert(tasks[c].job, pack_indexes)
       IN  /\ tasks' = [tasks EXCEPT ![c].job = r.job]
           /\ pack_indexes' = r.indexes
           /\ fetch_calls' = IF AwaitsFetch(r.job) THEN fetch_calls + 1 ELSE fetch_calls
    /\ UNCHANGED <<packs, ingest_log, calls, retr, ing, keyVars>>

BgClosed(c) ==
    /\ LoopFree
    /\ tasks[c].pc = "running"
    /\ tasks[c].job.phase = "closing"
    /\ LET job == AfterClose(tasks[c].job)
       IN  IF job.phase = "raised"
           THEN /\ tasks' = [tasks EXCEPT ![c].pc = "failed", ![c].job = job]
                /\ UNCHANGED <<packs, ingest_log>>
           ELSE BgReturn(c, job)
    /\ UNCHANGED <<pack_indexes, calls, fetch_calls, retr, ing, keyVars>>

(***************************************************************************)
(* retrieve_from_pack (a coroutine of the loop, no suspension point        *)
(* inside) and pack_summaries (run in a worker thread by /debug/packs).    *)
(***************************************************************************)

\* the retrieve_from_pack call of a chat turn (graph.py:47-55) or of
\* /debug/search on a listed pack, seen from the pack cache: what it leaves
\* behind is the index it created lazily
Retrieve(key, embed_ok, rerank_ok) ==
    /\ LoopFree
    /\ LET idx1 == ensure_index(pack_indexes, key)
           order == DenseOrder(idx1, key, RetrieveK)
           r == retrieve_from_pack(pack_indexes, key, RetrieveK, order,
                                   Relevance(idx1, key, order), embed_ok, rerank_ok)
       IN  /\ pack_indexes' = r.indexes
           /\ pack_indexes' # pack_indexes
    /\ UNCHANGED <<packs, ingest_log, calls, tasks, fetch_calls, retr, ing, keyVars>>

\* docpack_manager.py:83-101: get_index_stats of every pack creates the
\* indexes that do not exist yet.  Run in a worker thread, it can also run
\* while the loop is inside upsert_documents.
RECURSIVE StatsAll(_, _)
StatsAll(idx, keys) ==
    IF keys = {} THEN idx
    ELSE LET key == CHOOSE x \in keys : TRUE
         IN  StatsAll(get_index_stats(idx, key).indexes, keys \ {key})

PackSummaries ==
    /\ pack_indexes' = StatsAll(pack_indexes, DOMAIN packs)
    /\ pack_indexes' # pack_indexes
    /\ UNCHANGED <<packs, ingest_log, calls, tasks, fetch_calls, retr, ing, keyVars>>

Next ==
    \/ \E c \in Calls, d \in Decisions : EnsureStart(c, d)
    \/ \E c \in Calls, o \in FetchOutcomes, e \in BOOLEAN : SyncFetched(c, o, e)
    \/ \E c \in Calls : SyncUpserted(c)
    \/ \E c \in Calls : SyncClosed(c)
    \/ \E c \in Calls : BgStart(c)
    \/ \E c \in Calls, o \in FetchOutcomes, e \in BOOLEAN : BgFetched(c, o, e)
    \/ \E c \in Calls : BgUpserted(c)
    \/ \E c \in Calls : BgClosed(c)
    \/ \E key \in DOMAIN packs, e \in BOOLEAN, r \in BOOLEAN : Retrieve(key, e, r)
    \/ PackSummaries

Spec == Init /\ [][Next]_vars

(***************************************************************************)
(* Key derivation alone: two topic descriptors are given and              *)
(* ensure_pack_for_decision derives the key of each (lines 64-67).         *)
(***************************************************************************)
KeyTechs == {None, Some(StrGeneric), Some(StrK8s)}
KeyVersions == {None, Some(StrLatest), Some(StrOne)}
KeyLangs == {StrEn, StrK8s}
KeyDecisions ==
    {Decision(t, v, src, <<>>) :
        t \in KeyTechs, v \in KeyVersions, src \in SeqsUpTo({UrlA, UrlB}, MaxSources)}

KeyInit ==
    /\ MainInit
    /\ kin \in [a : KeyDecisions, b : KeyDecisions, lang : KeyLangs]
    /\ kout = [a |-> None, b |-> None]

DeriveA ==
    /\ kout.a = None
    /\ kout' = [kout EXCEPT !.a = Some(DecisionKey(kin.a, kin.lang))]
    /\ UNCHANGED <<kin, mainVars>>

DeriveB ==
    /\ kout.b = None
    /\ kout' = [kout EXCEPT !.b = Some(DecisionKey(kin.b, kin.lang))]
    /\ UNCHANGED <<kin, mainVars>>

KeyNext == DeriveA \/ DeriveB

KeySpec == KeyInit /\ [][KeyNext]_vars

(***************************************************************************)
(* Retrieval alone: a key's index holds some documents (or the key was     *)
(* never seen) and retrieve_from_pack is called on it.  The Embedder and   *)
(* the Reranker are external: index.search may return the neighbours in    *)
(* any order and the Reranker may give any scores, and either may fail.    *)
(***************************************************************************)
RetrKey == key_from_sources(None, None, StrEn, <<UrlA>>)
RetrScores == {0, 1}

\* the i-th document of the index: the page "http://a/<c>" with text "t<c>",
\* c the i-th character from "1" on
RetrDoc(i) ==
    MakeDoc(UrlA \o <<48 + i>>,
            [hrefs |-> <<>>, text |-> StrText \o <<48 + i>>, title |-> None])

IndexOfDocs(m) == [index |-> [i \in DOMAIN m |-> encode_passage(m[i])], meta |-> m]

\* the numbers of documents tried, and the values of k (k = 0 asks for no
\* result)
RetrSizes == (0..MaxDocs) \cup {ExampleDocs, LargeDocs}
RetrKs == (0..MaxK) \cup {LargeK}

\* the offsets index.search can return for n vectors and `want` neighbours:
\* a flat index of n >= want vectors returns `want` different offsets.  Every
\* such list for a small index; for a larger one the first offsets upwards,
\* the last ones downwards, and the first ones with the even offsets first.
DenseOrders(n, want) ==
    IF n <= MaxDocs
    THEN {o \in [1..want -> 1..n] : \A i, j \in 1..want : o[i] = o[j] => i = j}
    ELSE {[i \in 1..want |-> i],
          [i \in 1..want |-> n + 1 - i],
          [i \in 1..want |-> IF 2 * i <= want THEN 2 * i ELSE 2 * (i - want \div 2) - 1]}

\* the scores the Reranker can give to `want` candidates: every scoring of a
\* few candidates; for more, all equal, alternating, and rising in pairs
RerankScores(want) ==
    IF want <= MaxDocs
    THEN [1..want -> RetrScores]
    ELSE {[i \in 1..want |-> 0],
          [i \in 1..want |-> i % 2],
          [i \in 1..want |-> i \div 2]}

RetrInit ==
    /\ packs = <<>>
    /\ ingest_log = <<>>
    /\ pack_indexes \in {<<>>} \cup
            {(RetrKey :> IndexOfDocs([i \in 1..n |-> RetrDoc(i)])) : n \in RetrSizes}
    /\ calls = [c \in Calls |-> NoCall]
    /\ tasks = [c \in Calls |-> NoTask]
    /\ fetch_calls = 0
    /\ retr = NoRetr
    /\ ing = NoIng
    /\ KeyIdle

\* one call in a behaviour: a call leaves the index as it is (or creates it
\* empty, which is an initial state too), so a second call adds nothing.
\* A call in which the Embedder or the Reranker fails returns nothing that
\* depends on the order or on the scores, so one of each is tried.
RetrieveCall(key, k, embed_ok, rerank_ok) ==
    /\ retr.outcome = "none"
    /\ LET n == ntotal(pack_indexes, key)
           want == pre_k(k, n)
           both == embed_ok /\ rerank_ok
           orders == IF both THEN DenseOrders(n, want) ELSE {[i \in 1..want |-> i]}
           scores == IF both THEN RerankScores(want) ELSE {[i \in 1..want |-> 0]}
       IN  \E order \in orders, score \in scores :
               LET r == retrieve_from_pack(pack_indexes, key, k, order, score,
                                           embed_ok, rerank_ok)
               IN  /\ pack_indexes' = r.indexes
                   /\ retr' = [x \in DOMAIN NoRetr |-> r[x]]
    /\ UNCHANGED <<packs, ingest_log, calls, tasks, fetch_calls, ing, keyVars>>

RetrNext ==
    \E k \in RetrKs, e \in BOOLEAN, r \in BOOLEAN : RetrieveCall(RetrKey, k, e, r)

RetrSpec == RetrInit /\ [][RetrNext]_vars

(***************************************************************************)
(* Ingestion alone: ingest_stage_a is called once, on a key whose index    *)
(* does not exist or holds a document, with some sources, keywords and     *)
(* page cap; every fetch can fail, and so can the Embedder.                *)
(***************************************************************************)
IngestKey == key_from_sources(None, None, StrEn, <<UrlCK>>)
IngestSourceLists ==
    {<<>>, <<UrlCK>>, <<UrlA>>, <<UrlB, UrlCK>>, <<UrlA, UrlB>>, <<UrlCK1>>}
IngestKeywords == {<<>>, <<StrBlank>>, <<StrKw>>, <<StrBlank, StrUpperK>>}

IngestInit ==
    /\ packs = <<>>
    /\ ingest_log = <<>>
    /\ pack_indexes \in {<<>>, (IngestKey :> IndexOfDocs(<<RetrDoc(1)>>))}
    /\ calls = [c \in Calls |-> NoCall]
    /\ tasks = [c \in Calls |-> NoTask]
    /\ fetch_calls = 0
    /\ retr = NoRetr
    /\ ing \in {[NoIng EXCEPT !.sources = src, !.subtopics = kw, !.limit = lim,
                               !.before = ntotal(pack_indexes, IngestKey)] :
                    src \in IngestSourceLists, kw \in IngestKeywords, lim \in 1..MaxPages}
    /\ KeyIdle

\* ingest.py:61-68: the call, up to its first suspension or to its return
IngestCall ==
    /\ ing.job.phase = "none"
    /\ LET job == ingest_begin(IngestKey, ing.sources, ing.subtopics, ing.limit)
       IN  /\ ing' = [ing EXCEPT !.job = job, !.before = ntotal(pack_indexes, IngestKey)]
           /\ fetch_calls' = IF AwaitsFetch(job) THEN fetch_calls + 1 ELSE fetch_calls
    /\ UNCHANGED <<packs, ingest_log, pack_indexes, calls, tasks, retr, keyVars>>

\* the fetch the call awaits ends; the call runs on to its next suspension
\* point, or into upsert_documents
IngestFetched(outcome, embed_ok) ==
    /\ AwaitsFetch(ing.job)
    /\ LET job == ing.job
           url == IF job.phase = "base" THEN job.sources[job.si] ELSE job.links[job.li]
           entry == [url |-> url, kind |-> job.phase, si |-> job.si, ok |-> outcome = "ok"]
           r == IF job.phase = "base"
                THEN [job |-> AfterBase(job, outcome), indexes |-> pack_indexes]
                ELSE AfterPage(job, pack_indexes, outcome, embed_ok)
       IN  /\ ing' = [ing EXCEPT !.job = r.job, !.log = Append(@, entry),
                                 !.embed_failed = r.job.exc]
           /\ pack_indexes' = r.indexes
           /\ fetch_calls' = IF AwaitsFetch(r.job) THEN fetch_calls + 1 ELSE fetch_calls
    /\ UNCHANGED <<packs, ingest_log, calls, tasks, retr, keyVars>>

IngestUpserted ==
    /\ ing.job.phase = "upsert"
    /\ LET r == AfterUpsert(ing.job, pack_indexes)
       IN  /\ ing' = [ing EXCEPT !.job = r.job]
           /\ pack_indexes' = r.indexes
           /\ fetch_calls' = IF AwaitsFetch(r.job) THEN fetch_calls + 1 ELSE fetch_calls
    /\ UNCHANGED <<packs, ingest_log, calls, tasks, retr, keyVars>>

IngestClosed ==
    /\ ing.job.phase = "closing"
    /\ ing' = [ing EXCEPT !.job = AfterClose(@)]
    /\ UNCHANGED <<packs, ingest_log, pack_indexes, calls, tasks, fetch_calls, retr, keyVars>>

IngestNext ==
    \/ IngestCall
    \/ \E o \in FetchOutcomes, e \in BOOLEAN : IngestFetched(o, e)
    \/ IngestUpserted
    \/ IngestClosed

IngestSpec == IngestInit /\ [][IngestNext]_vars

(***************************************************************************)
(* Properties.                                                             *)
(***************************************************************************)
\* the invocation c has started a synchronous ingest (ingest_stage_a was
\* called from docpack_manager.py:73)
SyncIngestStarted(c) == calls[c].job.phase # "none"

\* C1: for each pack key, at most one ensure_pack_for_decision invocation
\* ever starts the synchronous ingest, however the invocations interleave at
\* their suspension points.
C1_OneSyncIngestPerKey ==
    \A c1, c2 \in Calls :
        (SyncIngestStarted(c1) /\ SyncIngestStarted(c2) /\ calls[c1].key = calls[c2].key)
            => c1 = c2

\* C1 witness: a second invocation with the same key (its sources in another
\* order) has returned without an ingest while the first one's synchronous
\* ingest is still awaiting a fetch.
C1_Witness ==
    \E c1, c2 \in Calls :
        /\ calls[c1].pc = "ingest" /\ AwaitsFetch(calls[c1].job)
        /\ calls[c2].pc = "returned" /\ ~SyncIngestStarted(c2)
        /\ calls[c1].key = calls[c2].key
        /\ calls[c1].decision # calls[c2].decision

\* multiset equality of two lists
IsPermutation(l1, l2) ==
    /\ Len(l1) = Len(l2)
    /\ \A x \in Range(l1) \cup Range(l2) :
        Cardinality({i \in DOMAIN l1 : l1[i] = x}) = Cardinality({i \in DOMAIN l2 : l2[i] = x})

\* an absent domain reads "generic", an absent version "latest"
DomainOf(d) == IF d.tech = None THEN StrGeneric ELSE d.tech[1]
VersionOf(d) == IF d.version = None THEN StrLatest ELSE d.version[1]
BothDerived == kout.a # None /\ kout.b # None

\* C2: two descriptors with the same domain (absent = "generic"), version
\* (absent = "latest") and language whose source lists are permutations of
\* each other derive the same key.
C2_OrderInsensitive ==
    (/\ BothDerived
     /\ DomainOf(kin.a) = DomainOf(kin.b)
     /\ VersionOf(kin.a) = VersionOf(kin.b)
     /\ IsPermutation(kin.a.candidate_sources, kin.b.candidate_sources))
        => kout.a = kout.b

\* C2 witness: keys derived for two different orders of two different urls,
\* one descriptor with domain and version absent, the other naming "generic"
\* and "latest".
C2_Witness ==
    /\ BothDerived
    /\ kin.a.candidate_sources = <<UrlB, UrlA>>
    /\ kin.b.candidate_sources = <<UrlA, UrlB>>
    /\ kin.a.tech = None /\ kin.b.tech = Some(StrGeneric)
    /\ kin.a.version = None /\ kin.b.version = Some(StrLatest)
    /\ kout.a = kout.b

\* C3, as claimed: two descriptors with the same domain, version and
\* language whose source lists hold the same set of urls derive the same
\* key, however often a url is repeated.
C3_DuplicateInsensitive ==
    (/\ BothDerived
     /\ DomainOf(kin.a) = DomainOf(kin.b)
     /\ VersionOf(kin.a) = VersionOf(kin.b)
     /\ Range(kin.a.candidate_sources) = Range(kin.b.candidate_sources))
        => kout.a = kout.b

\* the step in which invocation c begins and finds the Manifest of its key
EnsureHitStep(c) ==
    /\ calls[c].pc = "idle"
    /\ calls'[c].pc # "idle"
    /\ KeyOf[calls'[c].decision] \in DOMAIN packs

\* C4: an invocation whose key already has a Manifest returns (key, "ready")
\* in that same step, starts no ingest, makes no Fetcher call, creates no
\* task, and leaves Manifests, ingest log and indexes as they are.
C4_ExistingPackReturnsAtOnce ==
    [][\A c \in Calls :
        EnsureHitStep(c) =>
            /\ calls'[c].pc = "returned"
            /\ calls'[c].status = "ready"
            /\ calls'[c].key = KeyOf[calls'[c].decision]
            /\ ~SyncIngestStarted(c)'
            /\ fetch_calls' = fetch_calls
            /\ tasks' = tasks
            /\ packs' = packs
            /\ ingest_log' = ingest_log
            /\ pack_indexes' = pack_indexes]_vars

\* C4 witness: an invocation has returned "ready" without an ingest for a
\* key whose Manifest has completeness 0 and whose first build is in flight.
C4_Witness ==
    \E c1, c2 \in Calls :
        /\ calls[c2].pc = "returned" /\ ~calls[c2].created
        /\ calls[c2].status = "ready"
        /\ calls[c1].pc = "ingest" /\ calls[c1].key = calls[c2].key
        /\ packs[calls[c2].key].completeness = 0

\* the step in which invocation c, which created the Manifest, returns
CreatorReturnStep(c) ==
    /\ calls[c].pc # "returned"
    /\ calls'[c].pc = "returned"
    /\ calls'[c].created

\* C5: when an invocation that created the Manifest returns, completeness
\* is 0.3 and the status "ready" if the key's index received a document from
\* the synchronous ingest, and 0 and "building" otherwise.
C5_CompletenessAndStatusAtReturn ==
    [][\A c \in Calls :
        CreatorReturnStep(c) =>
            LET key == calls'[c].key
                landed == ntotal(pack_indexes', key) > 0
            IN  /\ packs'[key].completeness = (IF landed THEN 3 ELSE 0)
                /\ calls'[c].status = (IF landed THEN "ready" ELSE "building")]_vars

\* C5 witness: the creating invocation has just returned "ready" with
\* completeness 0.3, its background task not yet run.
C5_Witness ==
    \E c \in Calls :
        /\ calls[c].pc = "returned" /\ calls[c].created
        /\ calls[c].status = "ready"
        /\ tasks[c].pc = "scheduled"
        /\ packs[calls[c].key].completeness = 3
        /\ ntotal(pack_indexes, calls[c].key) > 0

\* C6, as claimed: every invocation that created a Manifest and has ended,
\* whatever the synchronous ingest did, has scheduled the background ingest.
C6_AlwaysSchedulesEnrichment ==
    \A c \in Calls :
        (calls[c].created /\ calls[c].pc \in {"returned", "raised"})
            => tasks[c].pc # "none"

\* C7, as claimed: once the background ingest has completed, completeness is
\* at least 0.6, whatever it ingested.
C7_EnrichmentAlwaysRaises ==
    \A c \in Calls :
        tasks[c].pc = "done" => packs[tasks[c].key].completeness >= 6

\* C7, amended: once the background ingest has completed with a non-zero
\* document count, completeness is at least 0.6 (and stays so).
C7_EnrichmentRaisesWhenDocsLanded ==
    \A c \in Calls :
        (tasks[c].pc = "done" /\ ingest_count(tasks[c].job) # 0)
            => packs[tasks[c].key].completeness >= 6

\* C7 witness: a background ingest has completed with documents after a
\* synchronous ingest that found none, and completeness is 0.6.
C7_Witness ==
    \E c \in Calls :
        /\ tasks[c].pc = "done" /\ ingest_count(tasks[c].job) # 0
        /\ calls[c].status = "building"
        /\ packs[tasks[c].key].completeness = 6

C8_InRange == \A key \in DOMAIN packs : packs[key].completeness \in 0..10
C8_NoDecrease ==
    \A key \in DOMAIN packs :
        key \in DOMAIN packs' /\ packs'[key].completeness >= packs[key].completeness

\* C8: every Manifest's completeness is within [0,1] in every state, and no
\* step lowers it (nor removes a Manifest).
C8_CompletenessBoundedMonotone == []C8_InRange /\ [][C8_NoDecrease]_vars

\* C8 witness: a key went through both raises, 0 -> 0.3 by the synchronous
\* ingest and 0.3 -> 0.6 by the background one, a second invocation for the
\* key having come in between.
C8_Witness ==
    \E c1, c2 \in Calls :
        /\ calls[c1].status = "ready" /\ calls[c1].created
        /\ tasks[c1].pc = "done"
        /\ packs[calls[c1].key].completeness = 6
        /\ calls[c2].pc = "returned" /\ ~calls[c2].created
        /\ calls[c2].key = calls[c1].key

\* the step in which invocation c, which created the Manifest, ends (by
\* returning or by raising) with no fetch of its ingest having succeeded
EndsWithoutFetchedPage(c) ==
    /\ calls[c].pc \in {"idle", "ingest"}
    /\ calls'[c].pc \in {"returned", "raised"}
    /\ calls'[c].created
    /\ calls'[c].job.ok_fetches = 0

\* C9: an invocation whose source list is empty or whose every fetch failed
\* returns (does not raise) with status "building"; the Manifest exists with
\* completeness 0, and a retrieve on the key then returns ([], []) without
\* raising, whether or not Embedder and Reranker are available.
C9_FailedIngestDegrades ==
    [][\A c \in Calls :
        EndsWithoutFetchedPage(c) =>
            LET key == calls'[c].key
            IN  /\ calls'[c].pc = "returned"
                /\ calls'[c].status = "building"
                /\ key \in DOMAIN packs'
                /\ packs'[key].completeness = 0
                /\ \A e \in BOOLEAN, r \in BOOLEAN :
                    LET got == retrieve_from_pack(pack_indexes', key, RetrieveK,
                                                  <<>>, <<>>, e, r)
                    IN  /\ got.outcome = "ok"
                        /\ got.context = <<>>
                        /\ got.citations = <<>>]_vars

\* C9 witness: an invocation with two sources has just returned "building"
\* after both base fetches failed.
C9_Witness ==
    \E c \in Calls :
        /\ calls[c].pc = "returned" /\ calls[c].created
        /\ Len(calls[c].decision.candidate_sources) = 2
        /\ calls[c].job.ok_fetches = 0
        /\ calls[c].status = "building"
        /\ tasks[c].pc = "scheduled"
        /\ fetch_calls >= 2

\* C10: a retrieve on a key whose index holds no vector returns ([], [])
\* without raising and without a call to the Embedder or the Reranker.
C10_EmptyIndexRetrievesNothing ==
    (retr.outcome # "none" /\ ntotal(pack_indexes, retr.key) = 0)
        => /\ retr.outcome = "ok"
           /\ retr.context = <<>>
           /\ retr.citations = <<>>
           /\ retr.embed_calls = 0
           /\ retr.rerank_calls = 0

\* C10 witness: a retrieve on a key never seen before, with the Embedder
\* and the Reranker both unavailable, has returned.
C10_Witness ==
    /\ retr.outcome = "ok"
    /\ ~retr.seen
    /\ ~retr.embed_ok /\ ~retr.rerank_ok
    /\ retr.key \in DOMAIN pack_indexes
    /\ ntotal(pack_indexes, retr.key) = 0

\* C11: a retrieve that returns, whatever the index holds, whatever k (a
\* number of results, k >= 0), the order of the neighbours and the scores,
\* returns at most k context items and at most min(k, 4) citations.
C11_AtMostKContextFourCitations ==
    retr.outcome = "ok"
        => /\ Len(retr.context) <= retr.k
           /\ Len(retr.citations) <= Min(retr.k, 4)

\* C11 witness: a retrieve with k = 5 on an index of more than 5 documents
\* has returned exactly 5 context items and 4 citations.
C11_Witness ==
    /\ retr.outcome = "ok"
    /\ retr.k = 5
    /\ retr.ntotal > 5
    /\ Len(retr.context) = 5
    /\ Len(retr.citations) = 4

\* C12: on an index of n >= 1 documents a retrieve with k >= 1 during which
\* Embedder and Reranker work asks index.search for min(max(3k, 30), n)
\* neighbours, gives as many candidates to the Reranker, and returns
\* min(k, n) context items and min(4, k, n) citations; n = 10 and k = 5 give
\* 10, 5 and 4.
C12_CandidateAndResultCounts ==
    (retr.outcome = "ok" /\ retr.ntotal >= 1 /\ retr.k >= 1)
        => LET n == retr.ntotal
               k == retr.k
               expect == IF 3 * k >= 30
                         THEN (IF 3 * k <= n THEN 3 * k ELSE n)
                         ELSE (IF 30 <= n THEN 30 ELSE n)
           IN  /\ retr.pre_k = expect
               /\ Len(retr.order) = expect
               /\ retr.reranked = expect
               /\ Len(retr.context) = (IF k <= n THEN k ELSE n)
               /\ Len(retr.citations) = Min(4, IF k <= n THEN k ELSE n)
               /\ (n = 10 /\ k = 5) =>
                    /\ retr.pre_k = 10
                    /\ Len(retr.context) = 5
                    /\ Len(retr.citations) = 4

\* C12 witness: a retrieve with 3k > 30 on an index of more than 3k
\* documents has asked for 3k neighbours, fewer than the index holds, and
\* returned k context items and 4 citations.
C12_Witness ==
    /\ retr.outcome = "ok"
    /\ 3 * retr.k > 30
    /\ retr.ntotal > 3 * retr.k
    /\ retr.pre_k = 3 * retr.k
    /\ retr.reranked = 3 * retr.k
    /\ Len(retr.context) = retr.k
    /\ Len(retr.citations) = 4

\* the place among the dense-recall candidates of the j-th context item
\* (the documents of an index of the retrieval specification all differ)
CandidatePos(j) ==
    CHOOSE p \in DOMAIN retr.order :
        pack_indexes[retr.key].meta[retr.order[p]].url = retr.context[j].url

\* C13: the context a retrieve returns is in descending order of rerank
\* score, candidates of equal score in their dense-recall order, and the
\* citations are the first min(4, |context|) context items in that order,
\* each with its title, url and score.
C13_RankedStableCitationsPrefix ==
    retr.outcome = "ok"
        => /\ \A i, j \in DOMAIN retr.context :
                i < j =>
                    \/ retr.score[CandidatePos(i)] > retr.score[CandidatePos(j)]
                    \/ /\ retr.score[CandidatePos(i)] = retr.score[CandidatePos(j)]
                       /\ CandidatePos(i) < CandidatePos(j)
           /\ Len(retr.citations) = Min(4, Len(retr.context))
           /\ \A j \in DOMAIN retr.citations :
                /\ retr.citations[j].url = retr.context[j].url
                /\ retr.citations[j].title = retr.context[j].title
                /\ retr.citations[j].score = retr.score[CandidatePos(j)]

\* C13 witness: a retrieve has returned more than 4 context items, among
\* them two of different score and two of equal score that the dense recall
\* gave in the reverse of their insertion order.
C13_Witness ==
    /\ retr.outcome = "ok"
    /\ Len(retr.context) > 4
    /\ \E i, j \in DOMAIN retr.context :
        retr.score[CandidatePos(i)] # retr.score[CandidatePos(j)]
    /\ \E i, j \in DOMAIN retr.context :
        /\ i < j
        /\ retr.score[CandidatePos(i)] = retr.score[CandidatePos(j)]
        /\ retr.order[CandidatePos(i)] > retr.order[CandidatePos(j)]

\* the documents the key's index has received since the ingest was called
IngestedDocs ==
    IF IngestKey \in DOMAIN pack_indexes
    THEN SubSeq(pack_indexes[IngestKey].meta, ing.before + 1,
                Len(pack_indexes[IngestKey].meta))
    ELSE <<>>

\* C14: an ingest called with an empty source list has returned (0, []) by
\* the end of the step that calls it; no step of such a behaviour makes a
\* Fetcher call, creates the key's index or adds a vector to it.
C14_EmptySourcesReturnAtOnce ==
    [][ing.sources = <<>> =>
        /\ fetch_calls' = fetch_calls
        /\ pack_indexes' = pack_indexes
        /\ (ing.job.phase = "none" /\ ing'.job.phase # "none") =>
            /\ ing'.job.phase = "done"
            /\ ingest_count(ing'.job) = 0
            /\ ingest_urls(ing'.job) = <<>>]_vars

\* C14 witness: an ingest with no sources, on a key without an index, has
\* returned; no fetch was made and the key still has no index.
C14_Witness ==
    /\ ing.sources = <<>>
    /\ ing.job.phase = "done"
    /\ fetch_calls = 0
    /\ ing.log = <<>>
    /\ IngestKey \notin DOMAIN pack_indexes

\* C15, as claimed: an ingest of one source with a cap of 1 page, once
\* returned, has made exactly one Fetcher call, for the base url, and the
\* index has received no other page than the base page.
C15_OneFetchAtCapOne ==
    (ing.job.phase = "done" /\ Len(ing.sources) = 1 /\ ing.limit = 1)
        => /\ Len(ing.log) = 1
           /\ ing.log[1].url = ing.sources[1]
           /\ \A i \in DOMAIN IngestedDocs : IngestedDocs[i].url = ing.sources[1]

\* C15, amended: an ingest of one source with a cap of 1 page calls the
\* Fetcher for the base url only, whatever links the base page has: once to
\* discover the links and, if that fetch succeeded, once more to ingest the
\* page.  It ingests no other page than the base page, and that one at most
\* once.
C15_BaseOnlyAtCapOne ==
    (Len(ing.sources) = 1 /\ ing.limit = 1)
        => /\ \A i \in DOMAIN ing.log : ing.log[i].url = ing.sources[1]
           /\ fetch_calls <= 2
           /\ ing.job.phase \in {"done", "raised"} =>
                Len(ing.log) = (IF ing.log[1].ok THEN 2 ELSE 1)
           /\ Len(IngestedDocs) <= 1
           /\ \A i \in DOMAIN IngestedDocs : IngestedDocs[i].url = ing.sources[1]
           /\ ing.job.phase = "done" => ingest_count(ing.job) = Len(IngestedDocs)

\* C15 witness: an ingest of "http://c/k" with keyword "k" and cap 1 has
\* returned 1 after two successful fetches of the base url; the base page
\* has three more links that match the keyword.
C15_Witness ==
    /\ ing.job.phase = "done"
    /\ ing.sources = <<UrlCK>> /\ ing.subtopics = <<StrKw>> /\ ing.limit = 1
    /\ Len(candidate_links_uncut(Page(UrlCK), UrlCK, ing.subtopics, ing.limit)) > 3
    /\ Len(ing.log) = 2
    /\ ing.log[1].ok /\ ing.log[2].ok
    /\ ingest_count(ing.job) = 1
    /\ Len(IngestedDocs) = 1

\* C16, as claimed: when the invocation that created the Manifest has
\* returned (its background task not yet run), completeness is 0.3 and the
\* status "ready" if the synchronous ingest put a page with non-empty text
\* into the index, and 0 and "building" if every page it fetched had empty
\* text (or none was fetched).
C16_EmptyTextDoesNotCount ==
    \A c \in Calls :
        (calls[c].pc = "returned" /\ calls[c].created /\ tasks[c].pc = "scheduled")
            => LET key == calls[c].key
                   meta == IF key \in DOMAIN pack_indexes
                           THEN pack_indexes[key].meta ELSE <<>>
                   some_text == \E i \in DOMAIN meta : meta[i].text # <<>>
               IN  /\ packs[key].completeness = (IF some_text THEN 3 ELSE 0)
                   /\ calls[c].status = (IF some_text THEN "ready" ELSE "building")

NoRepeat(l) == \A i, j \in DOMAIN l : l[i] = l[j] => i = j

\* C17, as claimed: the candidate urls of a source whose base fetch
\* succeeded are the base url followed by the links of the base page that
\* have the base url's scheme and host and contain a usable keyword, in the
\* order of the page, no url twice (a link equal to the base url is not
\* repeated either), cut to the page cap; without a usable keyword they are
\* the base url alone.
C17_CandidatesBaseFirstNoRepeat ==
    ing.job.phase = "page"
        => LET base == ing.sources[ing.job.si]
               links == ing.job.links
               usable == {i \in DOMAIN ing.subtopics : StripNonEmpty(ing.subtopics[i])}
               Wanted(u) ==
                    /\ UrlScheme(u) = UrlScheme(base)
                    /\ UrlNetloc(u) = UrlNetloc(base)
                    /\ \E i \in usable : Contains(lower(u), lower(ing.subtopics[i]))
                    /\ u # base
               rest == Dedup(SelectSeq(Page(base).hrefs, Wanted))
           IN  /\ links[1] = base
               /\ links = Take(<<base>> \o rest, ing.limit)
               /\ NoRepeat(links)
               /\ Len(links) <= ing.limit
               /\ usable = {} => links = <<base>>

\* the fetches of the ingest that have ended, by kind
BaseFetches == SelectSeq(ing.log, LAMBDA e : e.kind = "base")
PageFetches(si) == SelectSeq(ing.log, LAMBDA e : e.kind = "page" /\ e.si = si)
OkPageCount == Cardinality({i \in DOMAIN ing.log : ing.log[i].kind = "page" /\ ing.log[i].ok})
UrlsOf(entries) == [i \in DOMAIN entries |-> entries[i].url]

\* C18, as claimed: the count an ingest returns is the number of pages
\* fetched and extracted successfully, and every url of the list it returns
\* was fetched successfully (as a page or as the base url of a source).
C18_ListedUrlsWereFetched ==
    ing.job.phase = "done"
        => /\ ingest_count(ing.job) = OkPageCount
           /\ \A u \in Range(ingest_urls(ing.job)) :
                \E i \in DOMAIN ing.log : ing.log[i].url = u /\ ing.log[i].ok

\* C18, amended: the count an ingest returns is the number of pages fetched
\* and extracted successfully, and the urls it returns are the candidate
\* urls of the sources whose base fetch succeeded: a source whose base fetch
\* failed contributes no url, while a page whose own fetch failed
\* contributes no document but stays in the list.
C18_ListedUrlsComeFromFetchedSources ==
    ing.job.phase = "done"
        => LET fetched == {i \in DOMAIN BaseFetches : BaseFetches[i].ok}
               Candidates(i) ==
                    candidate_links(Page(ing.sources[i]), ing.sources[i],
                                    ing.subtopics, ing.limit)
           IN  /\ ingest_count(ing.job) = OkPageCount
               /\ Range(ingest_urls(ing.job)) = UNION {Range(Candidates(i)) : i \in fetched}

\* C18 witness: an ingest has returned a count of 1 or more; the base fetch
\* of one source failed and its url is not in the returned list; the fetch
\* of a page of another source failed every time and its url is in the list.
C18_Witness ==
    /\ ing.job.phase = "done"
    /\ ingest_count(ing.job) >= 1
    /\ \E i \in DOMAIN ing.log :
        /\ ing.log[i].kind = "base" /\ ~ing.log[i].ok
        /\ ing.log[i].url \notin Range(ingest_urls(ing.job))
    /\ \E i \in DOMAIN ing.log :
        /\ ing.log[i].kind = "page" /\ ~ing.log[i].ok
        /\ ing.log[i].url \in Range(ingest_urls(ing.job))
        /\ \A j \in DOMAIN ing.log : ing.log[j].url = ing.log[i].url => ~ing.log[j].ok

\* C19: no failed fetch ends an ingest: only a failure of the Embedder lets
\* an exception out.  When an ingest has returned, the base url of every
\* source was fetched, in the order of the sources; for every source whose
\* base fetch succeeded every candidate url was fetched, in order; the count
\* returned is the number of pages fetched successfully, and the key's index
\* has grown by that many vectors and documents.
C19_FailuresSkippedCountIsGrowth ==
    /\ ing.job.exc => ing.embed_failed
    /\ ing.job.phase = "done"
        => /\ UrlsOf(BaseFetches) = ing.sources
           /\ \A si \in DOMAIN ing.sources :
                UrlsOf(PageFetches(si)) =
                    (IF BaseFetches[si].ok
                     THEN candidate_links(Page(ing.sources[si]), ing.sources[si],
                                          ing.subtopics, ing.limit)
                     ELSE <<>>)
           /\ ingest_count(ing.job) = OkPageCount
           /\ ntotal(pack_indexes, IngestKey) - ing.before = ingest_count(ing.job)
           /\ Len(IngestedDocs) = ingest_count(ing.job)

\* C19 witness: an ingest of two sources has returned; the base fetch of the
\* first source failed, a page fetch of the second failed too, and a page
\* fetched after both failures is in the index.
C19_Witness ==
    /\ ing.job.phase = "done"
    /\ Len(ing.sources) = 2
    /\ \E i, j, l \in DOMAIN ing.log :
        /\ i < j /\ j < l
        /\ ing.log[i].kind = "base" /\ ~ing.log[i].ok
        /\ ing.log[j].kind = "page" /\ ~ing.log[j].ok
        /\ ing.log[l].kind = "page" /\ ing.log[l].ok
        /\ \E d \in DOMAIN IngestedDocs : IngestedDocs[d].url = ing.log[l].url
    /\ ingest_count(ing.job) >= 1
    /\ ntotal(pack_indexes, IngestKey) = ing.before + ingest_count(ing.job)

C20_CountsMatch ==
    \A key \in DOMAIN pack_indexes :
        /\ Len(pack_indexes[key].index) = Len(pack_indexes[key].meta)
        /\ \A offset \in DOMAIN pack_indexes[key].index :
            /\ offset \in DOMAIN pack_indexes[key].meta
            /\ DOMAIN pack_indexes[key].meta[offset] = {"title", "url", "text"}
C20_NoDecrease ==
    \A key \in DOMAIN pack_indexes :
        /\ key \in DOMAIN pack_indexes'
        /\ Len(pack_indexes'[key].index) >= Len(pack_indexes[key].index)
        /\ Len(pack_indexes'[key].meta) >= Len(pack_indexes[key].meta)

\* C20, as claimed: in every state that a retrieve, a pack_summaries, the
\* synchronous or the background ingest of a key can be in or can see, the
\* key's index holds as many vectors as documents, every offset has its
\* complete document, and no step lowers either count.
C20_VectorsMatchMetadata == []C20_CountsMatch /\ [][C20_NoDecrease]_vars

\* C21, as claimed: every candidate url of a source has the scheme and the
\* host of the source's base url: a link of the base page with the same host
\* under another scheme is no candidate, nor is a link to another host.
C21_CandidatesSameSchemeAndHost ==
    ing.job.phase = "page"
        => \A i \in DOMAIN ing.job.links :
            /\ UrlNetloc(ing.job.links[i]) = UrlNetloc(ing.sources[ing.job.si])
            /\ UrlScheme(ing.job.links[i]) = UrlScheme(ing.sources[ing.job.si])

\* C21, amended: every candidate url of a source has the host of the
\* source's base url and the scheme http or https: a link to another host is
\* no candidate, nor is a link under any other scheme, while a link with the
\* same host is one whether its scheme is the base url's or the other of the
\* two.
C21_CandidatesSameHostHttpOrHttps ==
    ing.job.phase = "page"
        => \A i \in DOMAIN ing.job.links :
            /\ UrlNetloc(ing.job.links[i]) = UrlNetloc(ing.sources[ing.job.si])
            /\ UrlScheme(ing.job.links[i]) \in {StrHttp, StrHttps}

\* C21 witness: the candidates of the base url "http://c/K1" hold the https
\* link to the same host that its page has; the page's ftp link to that host
\* and its link to another host, which contain the keyword too, are not
\* among them.
C21_Witness ==
    /\ ing.job.phase = "page"
    /\ ing.sources = <<UrlCK1>>
    /\ UrlSCK \in Range(ing.job.links)
    /\ {UrlFtpCK, UrlDK} \subseteq Range(Page(UrlCK1).hrefs)
    /\ \A u \in {UrlFtpCK, UrlDK} :
        /\ u \notin Range(ing.job.links)
        /\ \E i \in DOMAIN ing.subtopics : Contains(lower(u), lower(ing.subtopics[i]))

\* key B has the same entry, or none, in f and in g
SameEntry(f, g, B) ==
    /\ B \in DOMAIN f <=> B \in DOMAIN g
    /\ B \in DOMAIN f => f[B] = g[B]

\* a failure of the Embedder has left the ingest `job`: the call that runs
\* it (pc) has not returned and will not
FailureLeavesCaller(job, pc, running, failed) ==
    job.exc => /\ pc \in {running, failed}
               /\ job.phase \in {"closing", "raised"}

\* a retrieve on key A in which the Embedder or the Reranker fails raises,
\* returns no result, and leaves every index as it is
FailingRetrieveRaises(A, embed_ok, rerank_ok) ==
    LET idx1 == ensure_index(pack_indexes, A)
        order == DenseOrder(idx1, A, RetrieveK)
        got == retrieve_from_pack(pack_indexes, A, RetrieveK, order,
                                  Relevance(idx1, A, order), embed_ok, rerank_ok)
    IN  /\ got.outcome = "raised"
        /\ got.context = <<>>
        /\ got.citations = <<>>
        /\ got.indexes = pack_indexes

C22_FailurePropagates ==
    /\ \A c \in Calls :
        /\ FailureLeavesCaller(calls[c].job, calls[c].pc, "ingest", "raised")
        /\ calls[c].job.exc => calls[c].status = "none"
        /\ FailureLeavesCaller(tasks[c].job, tasks[c].pc, "running", "failed")
    /\ LoopFree =>
        \A A \in DOMAIN pack_indexes, e \in BOOLEAN, r \in BOOLEAN :
            (ntotal(pack_indexes, A) > 0 /\ ~(e /\ r)) => FailingRetrieveRaises(A, e, r)

\* the step of the ingest `job` in which upsert_documents is called
UpsertCalled(job, job1) ==
    /\ job.phase = "page"
    /\ job.li = Len(job.links)
    /\ job1.phase # "page"
    /\ job.docs # <<>> \/ job1.ok_fetches > job.ok_fetches

\* what a step does to the ingest `job`: an upsert_documents that added no
\* vector has raised, and a step in which it raises leaves the Manifest, the
\* ingest log and the index of every other key as they are
FailureStep(job, job1) ==
    /\ (UpsertCalled(job, job1)
            /\ ntotal(pack_indexes', job.key) = ntotal(pack_indexes, job.key))
        => job1.exc
    /\ (~job.exc /\ job1.exc)
        => \A B \in (DOMAIN packs \cup DOMAIN ingest_log \cup DOMAIN pack_indexes
                     \cup DOMAIN packs' \cup DOMAIN ingest_log'
                     \cup DOMAIN pack_indexes') \ {job.key} :
                /\ SameEntry(packs, packs', B)
                /\ SameEntry(ingest_log, ingest_log', B)
                /\ SameEntry(pack_indexes, pack_indexes', B)

C22_FailureStep ==
    \A c \in Calls :
        /\ FailureStep(calls[c].job, calls'[c].job)
        /\ FailureStep(tasks[c].job, tasks'[c].job)

\* C22: a failure of the Embedder in upsert_documents on key A leaves the
\* ingest and its caller as an exception (the caller never returns a status,
\* the background task ends failed) and changes no Manifest, ingest log or
\* index of another key; a retrieve on key A in which the Embedder or the
\* Reranker fails raises, returns nothing, and leaves all indexes (key A's
\* too) and all Manifests as they are.
C22_CollaboratorFailureIsolated ==
    []C22_FailurePropagates /\ [][C22_FailureStep]_vars

\* C22 witness: the Embedder failed in the synchronous ingest of one key
\* after a first batch had landed in its index, and the invocation has
\* raised; another key has its Manifest, completeness 0, and its (empty)
\* index.
C22_Witness ==
    \E c1, c2 \in Calls :
        /\ calls[c1].pc = "raised" /\ calls[c1].job.exc
        /\ ntotal(pack_indexes, calls[c1].key) > 0
        /\ calls[c2].pc = "returned" /\ calls[c2].created
        /\ calls[c2].key # calls[c1].key
        /\ calls[c2].key \in DOMAIN pack_indexes
        /\ packs[calls[c2].key].completeness = 0

====
